---------------------------- MODULE Spec2Model ----------------------------
(***************************************************************************)
(* A model of script.py, the gov.wales English/Welsh bitext scraper.       *)
(*                                                                         *)
(* Part I models the text functions: str.split, str.lower, the two         *)
(* regular expressions, extract_probable_entities and quality_check, on    *)
(* texts that are sequences of one-character strings.                      *)
(* Part II models main: sitemap enumeration, Phase 1 (find_language_pair   *)
(* on a thread pool), Phase 2 (process_url_pair on a thread pool) and the  *)
(* writing of the output file by the main thread.                          *)
(***************************************************************************)
EXTENDS Integers, Sequences, FiniteSets, TLC

(***************************************************************************)
(*                         PART I : texts                                  *)
(***************************************************************************)

\* Character classes, as Python's str methods and the re module see them.
Whitespace == {" ", "\n"}
Digits == {"0", "2", "4", "7"}
Terminators == {".", "!", "?"}
UpperChars == {"A", "L", "T", "Y"}

\* str.lower() on one character: only cased upper-case characters change.
LowerChar(c) ==
    CASE c = "A" -> "a"
      [] c = "L" -> "l"
      [] c = "T" -> "t"
      [] c = "Y" -> "y"
      [] OTHER -> c

\* str.lower()
lower(text) == [i \in 1..Len(text) |-> LowerChar(text[i])]

\* str.isupper() of a one-character string
isupper(c) == c \in UpperChars

Range(s) == {s[i] : i \in 1..Len(s)}

Min(a, b) == IF a <= b THEN a ELSE b
Max(a, b) == IF a >= b THEN a ELSE b
Abs(a) == IF a >= 0 THEN a ELSE 0 - a

\* re.findall(r'[cls]+', text): the maximal runs of characters of cls, in order.
RECURSIVE FindRunsFrom(_, _, _, _, _)
FindRunsFrom(text, cls, i, cur, acc) ==
    IF i > Len(text)
    THEN IF cur = <<>> THEN acc ELSE Append(acc, cur)
    ELSE IF text[i] \in cls
         THEN FindRunsFrom(text, cls, i + 1, Append(cur, text[i]), acc)
         ELSE FindRunsFrom(text, cls, i + 1, <<>>,
                           IF cur = <<>> THEN acc ELSE Append(acc, cur))

findall(text, cls) == FindRunsFrom(text, cls, 1, <<>>, <<>>)

\* str.split() without a separator: the maximal runs of non-whitespace.
RECURSIVE SplitFrom(_, _, _, _)
SplitFrom(text, i, cur, acc) ==
    IF i > Len(text)
    THEN IF cur = <<>> THEN acc ELSE Append(acc, cur)
    ELSE IF text[i] \in Whitespace
         THEN SplitFrom(text, i + 1, <<>>,
                        IF cur = <<>> THEN acc ELSE Append(acc, cur))
         ELSE SplitFrom(text, i + 1, Append(cur, text[i]), acc)

split(text) == SplitFrom(text, 1, <<>>, <<>>)

\* len(text.split('\n\n')): one more than the number of non-overlapping
\* occurrences of the separator, found left to right.
RECURSIVE SeparatorsFrom(_, _)
SeparatorsFrom(text, i) ==
    IF i + 1 > Len(text) THEN 0
    ELSE IF text[i] = "\n" /\ text[i + 1] = "\n"
         THEN 1 + SeparatorsFrom(text, i + 2)
         ELSE SeparatorsFrom(text, i + 1)

paragraph_count(text) == 1 + SeparatorsFrom(text, 1)

\* The two word lists of quality_check, each word a sequence of characters.
common_en_words ==
    { <<"t","h","e">>, <<"a","n","d">>, <<"o","f">>, <<"t","o">>, <<"i","n">>,
      <<"i","s">>, <<"f","o","r">>, <<"o","n">>, <<"t","h","a","t">>,
      <<"b","y">>, <<"a">>, <<"a","r","e">>, <<"y","o","u">>, <<"w","e">>,
      <<"w","i","t","h">>, <<"a","s">>, <<"a","t">>, <<"f","r","o","m">>,
      <<"h","a","v","e">> }

common_cy_words ==
    { <<"y">>, <<"a">>, <<"i">>, <<"y","n">>, <<"o">>, <<"a","r">>,
      <<"m","a","e">>, <<"a","m">>, <<"g","y","d","a">>, <<"b","o","d">>,
      <<"g","a","n">>, <<"e","i">>, <<"y","r">>, <<"y","n","g">>,
      <<"c","h","i">>, <<"y","w">> }

\* The token count under which rule 1 treats a text as short.
ShortTextTokens == 10

\* extract_probable_entities: the lower-cased tokens that start with an
\* upper-case character and are longer than one character.
extract_probable_entities(text) ==
    { lower(w) : w \in { x \in Range(split(text)) : isupper(x[1]) /\ Len(x) > 1 } }

\* Rule 1 of quality_check with >= in place of >.
ShortSimilar_AtLeastHalf(en_length, cy_length) ==
    /\ en_length < ShortTextTokens
    /\ cy_length < ShortTextTokens
    /\ 2 * Min(en_length, cy_length) >= Max(en_length, cy_length)

\* The condition of rule 1 (line 100): both texts short and length_ratio > 0.5.
ShortSimilar(en_length, cy_length) ==
    /\ en_length < ShortTextTokens
    /\ cy_length < ShortTextTokens
    /\ 2 * Min(en_length, cy_length) > Max(en_length, cy_length)

\* What langdetect.detect may do on a text: return a language code or raise.
LangDetectException == "LangDetectException"
DetectEn == {"en", "fr", LangDetectException}
DetectCy == {"cy", "fr", LangDetectException}

\* Rule 3 of quality_check with "and" in place of "or".
NoCommonWords_Both(en_common_count, cy_common_count) ==
    en_common_count = 0 /\ cy_common_count = 0

\* The condition of rule 3 (line 119).
NoCommonWords(en_common_count, cy_common_count) ==
    en_common_count = 0 \/ cy_common_count = 0

\* The try block of lines 123-127 with the except clause taken for a mismatch.
BothDetected_ExceptionCounts(en_detected, cy_detected) == TRUE

\* The try block of lines 123-127 reaches its comparison: neither detect()
\* raised LangDetectException.
BothDetected(en_detected, cy_detected) ==
    en_detected # LangDetectException /\ cy_detected # LangDetectException

\* quality_check(en_text, cy_text).  The two detect() results are parameters:
\* langdetect is an external, randomised library.  The value is "True",
\* "False", or "ZeroDivisionError" when the function raises.  length_ratio is
\* the float min/max; for token counts far below 2^26 its comparisons with
\* 0.5 and 0.2 agree with the exact ones, 2*min > max and 5*min < max.
quality_check(en_text, cy_text, en_detected, cy_detected) ==
    LET en_length == Len(split(en_text))
        cy_length == Len(split(cy_text))
        lo == Min(en_length, cy_length)
        hi == Max(en_length, cy_length)
        en_words == Range(split(lower(en_text)))
        cy_words == Range(split(lower(cy_text)))
        en_common_count == Cardinality(en_words \cap common_en_words)
        cy_common_count == Cardinality(cy_words \cap common_cy_words)
        detected == BothDetected(en_detected, cy_detected)
        en_entities == extract_probable_entities(en_text)
        cy_entities == extract_probable_entities(cy_text)
        en_numbers == Range(findall(en_text, Digits))
        cy_numbers == Range(findall(cy_text, Digits))
        common_elements == (en_entities \cap cy_entities)
                           \cup (en_numbers \cap cy_numbers)
        en_sentence_count == Len(findall(en_text, Terminators))
        cy_sentence_count == Len(findall(cy_text, Terminators))
    IN  IF hi = 0 THEN "ZeroDivisionError"
        ELSE IF ShortSimilar(en_length, cy_length) THEN "True"
        ELSE IF 5 * lo < hi THEN "False"
        ELSE IF NoCommonWords(en_common_count, cy_common_count) THEN "False"
        ELSE IF detected /\ en_detected # "en" /\ cy_detected # "cy" THEN "False"
        ELSE IF Cardinality(common_elements) > 0 THEN "True"
        ELSE IF Abs(en_sentence_count - cy_sentence_count) <= 1 THEN "True"
        ELSE IF paragraph_count(en_text) = paragraph_count(cy_text) THEN "True"
        ELSE "False"


(***************************************************************************)
(* Input texts for the checks of quality_check: up to two words of a       *)
(* small vocabulary, followed by a run of filler words, joined by spaces.  *)
(***************************************************************************)
W_the == <<"t","h","e">>
W_y == <<"y">>
W_A == <<"A">>
W_London == <<"L","o","n","d","o","n">>
W_2024 == <<"2","0","2","4">>
W_eg == <<"e",".","g",".">>
W_break == <<"\n","\n">>
W_zz == <<"z","z">>

EnVocab == {W_the, W_A, W_London, W_2024, W_eg, W_break}
CyVocab == {W_y, W_A, W_London, W_2024, W_break}

\* The number of filler words that makes a text long (ShortTextTokens and more
\* tokens, with a core of two words).
LongPad == 8
PadLens == {0, 2, LongPad}

RECURSIVE Join(_)
Join(words) ==
    IF words = <<>> THEN <<>>
    ELSE IF Len(words) = 1 THEN words[1]
    ELSE words[1] \o <<" ">> \o Join(Tail(words))

Cores(vocab) ==
    {<<>>} \cup {<<a>> : a \in vocab} \cup {<<a, b>> : a \in vocab, b \in vocab}

TextsOver(vocab) ==
    { Join(core \o [i \in 1..n |-> W_zz]) : core \in Cores(vocab), n \in PadLens }

EnTexts == TextsOver(EnVocab)
CyTexts == TextsOver(CyVocab)

(***************************************************************************)
(*                         PART II : the pipeline                          *)
(***************************************************************************)

\* URLs are <<host, path>>; an href with an empty host is a relative reference.
Host == "gov.wales"
root_sitemap == <<Host, "/sitemap.xml">>
S1 == <<Host, "/sitemap1.xml">>
S2 == <<Host, "/sitemap2.xml">>
P1 == <<Host, "/p1">>
P2 == <<Host, "/p2">>
P3 == <<Host, "/p3">>
P4 == <<Host, "/p4">>
P5 == <<Host, "/p5">>
SitemapURLs == {root_sitemap, S1, S2}
PageURLs == {P1, P2, P3, P4, P5}
\* The pages that may carry a link to a Welsh version; the others never do.
LinkPages == {P1, P2}

\* urllib.parse.urljoin(current_url, href) for an absolute href and for a
\* reference that is an absolute path.
urljoin(current_url, href) ==
    IF href[1] = "" THEN <<current_url[1], href[2]>> ELSE href

MAX_WORKERS == 20

\* The bound of the environment: the blocks on one page.
MaxBlocks == 2

\* The sitemap files the site may serve: what each sitemap URL lists in its
\* <loc> elements.  A sitemap that nothing lists is empty.
SitemapFiles ==
    { [r |-> <<S1>>,     s1 |-> <<P1>>,     s2 |-> <<>>],
      [r |-> <<S1, S2>>, s1 |-> <<P1>>,     s2 |-> <<P2>>],
      [r |-> <<S1, S2>>, s1 |-> <<P1, P3>>, s2 |-> <<P4, P5>>],
      [r |-> <<S1, S2>>, s1 |-> <<P1>>,     s2 |-> <<P1>>],
      [r |-> <<S1>>,     s1 |-> <<P1, P1>>, s2 |-> <<>>],
      [r |-> <<S1>>,     s1 |-> <<P1, P2>>, s2 |-> <<>>],
      [r |-> <<S1, S1>>, s1 |-> <<P1>>,     s2 |-> <<>>],
      [r |-> <<P1, P2>>, s1 |-> <<>>,       s2 |-> <<>>],
      [r |-> <<S1>>,     s1 |-> <<S2>>,     s2 |-> <<P1>>],
      [r |-> <<S1>>,     s1 |-> <<>>,       s2 |-> <<>>] }

Webs ==
    { [u \in SitemapURLs |->
          IF u = root_sitemap THEN f.r ELSE IF u = S1 THEN f.s1 ELSE f.s2]
      : f \in SitemapFiles }

\* The page blocks the site may serve: the texts of the specification's
\* rule 1 scenario, and the empty block (an empty announcement element).
T_en == <<"T","h","e"," ","c","a","t"," ","s","a","t">>
T_cy == <<"Y"," ","g","a","t","h"," ","y","n"," ","e","i","s","t","e","d","d">>
T_empty == <<>>
EnBlocks == {T_en, T_empty}
CyBlocks == {T_cy, T_empty}

ArticleLists(blocks) == UNION { [1..n -> blocks] : n \in 0..MaxBlocks }

\* A record left in the output file by an earlier run, and the line break.
OldRecord == [kind |-> "record", en |-> T_en, cy |-> T_cy, url |-> P1,
              run |-> "earlier"]
Newline == [kind |-> "newline"]
OldFiles == { <<>>, <<OldRecord, Newline>> }

\* None
None == <<>>

VARIABLES
    web,            \* the sitemap files of the site
    REQUEST_DELAY,  \* "unbound" or "bound": the module global that scrape_page reads
    fileExists,     \* the output file exists
    file,           \* its content, a sequence of written chunks
    fileOpen,       \* the handle f is open
    openCount,      \* the number of times the file was opened
    pcMain,         \* where main is
    mainError,      \* main has taken its except branch
    sitemap_urls, smIdx, cache, failedSitemap, all_page_urls,
    tasks1,         \* the futures of Phase 1, in submission order
    url_pairs,
    units,          \* the futures of Phase 2, in submission order
    observed,       \* the units in the order in which as_completed yielded them
    writeQ,         \* the results of the future at hand still to be written
    total_pairs, valid_pairs,
    qcEn, qcCy, qcDetEn, qcDetCy, qcResult  \* one call of quality_check

envVars == <<web, REQUEST_DELAY>>
fileVars == <<fileExists, file, fileOpen, openCount>>
enumVars == <<sitemap_urls, smIdx, cache, failedSitemap, all_page_urls>>
phase1Vars == <<tasks1, url_pairs>>
phase2Vars == <<units, observed, writeQ, total_pairs, valid_pairs>>
qcVars == <<qcEn, qcCy, qcDetEn, qcDetCy, qcResult>>
vars == <<envVars, fileVars, pcMain, mainError, enumVars, phase1Vars,
          phase2Vars, qcVars>>


(***************************************************************************)
(* Sitemap enumeration (main, lines 177-187)                               *)
(***************************************************************************)

\* get_urls returning the first <loc> only (find in place of findall).
get_urls_FirstLoc(sitemap_url) ==
    LET locs == IF sitemap_url \in SitemapURLs THEN web[sitemap_url] ELSE <<>>
    IN  { [ok |-> TRUE, urls |-> IF locs = <<>> THEN <<>> ELSE <<Head(locs)>>],
          [ok |-> FALSE, urls |-> <<>>] }

\* get_urls(sitemap_url): the outcomes of one call, a list of <loc> texts or
\* an exception.  lru_cache answers a URL that was fetched before; a fetch of
\* a sitemap may fail; a page URL fetched as a sitemap is HTML, which
\* ET.fromstring refuses, or well-formed markup without any <loc>.
get_urls(sitemap_url) ==
    IF sitemap_url \in cache
    THEN { [ok |-> TRUE,
            urls |-> IF sitemap_url \in SitemapURLs THEN web[sitemap_url] ELSE <<>>] }
    ELSE IF sitemap_url \in SitemapURLs
    THEN { [ok |-> TRUE, urls |-> web[sitemap_url]], [ok |-> FALSE, urls |-> <<>>] }
    ELSE { [ok |-> TRUE, urls |-> <<>>], [ok |-> FALSE, urls |-> <<>>] }

\* An except clause that does not match the exception: main is left by it.
Abort_Uncaught ==
    /\ pcMain' = "propagated"
    /\ mainError' = TRUE

\* main's except branch (lines 221-222): the error is logged and main returns.
Abort ==
    /\ pcMain' = "done"
    /\ mainError' = TRUE

\* sitemap_urls = get_urls(root_sitemap)
MainGetRoot ==
    /\ pcMain = "start"
    /\ \E o \in get_urls(root_sitemap) :
         IF o.ok
         THEN /\ sitemap_urls' = o.urls
              /\ cache' = cache \cup {root_sitemap}
              /\ smIdx' = 1
              /\ pcMain' = "enumerate"
              /\ UNCHANGED <<mainError, failedSitemap>>
         ELSE /\ Abort
              /\ failedSitemap' = <<root_sitemap>>
              /\ UNCHANGED <<sitemap_urls, cache, smIdx>>
    /\ UNCHANGED <<envVars, fileVars, all_page_urls, phase1Vars, phase2Vars, qcVars>>

\* One iteration of the loop over sitemap_urls: get_urls, then extend.
MainGetChild ==
    /\ pcMain = "enumerate"
    /\ smIdx <= Len(sitemap_urls)
    /\ \E o \in get_urls(sitemap_urls[smIdx]) :
         IF o.ok
         THEN /\ all_page_urls' = all_page_urls \o o.urls
              /\ cache' = cache \cup {sitemap_urls[smIdx]}
              /\ smIdx' = smIdx + 1
              /\ UNCHANGED <<pcMain, mainError, failedSitemap>>
         ELSE /\ Abort
              /\ failedSitemap' = <<sitemap_urls[smIdx]>>
              /\ UNCHANGED <<all_page_urls, cache, smIdx>>
    /\ UNCHANGED <<envVars, fileVars, sitemap_urls, phase1Vars, phase2Vars, qcVars>>

(***************************************************************************)
(* Phase 1 (main, lines 189-199; find_language_pair, lines 50-70)          *)
(***************************************************************************)

\* What a fetched document may hold: no language link, a link without href,
\* or a link whose href names the Welsh page, as a path or as an absolute URL.
\* A sitemap file, and a page without a Welsh version, hold no such anchor.
CyPath(url) == IF url[2] = "/p1" THEN "/cy/p1" ELSE "/cy/p2"
Soups(url) ==
    IF url \in LinkPages
    THEN { [anchor |-> FALSE, has_href |-> FALSE, href |-> <<"", "">>],
           [anchor |-> TRUE,  has_href |-> FALSE, href |-> <<"", "">>],
           [anchor |-> TRUE,  has_href |-> TRUE,  href |-> <<"", CyPath(url)>>],
           [anchor |-> TRUE,  has_href |-> TRUE,  href |-> <<Host, CyPath(url)>>] }
    ELSE { [anchor |-> FALSE, has_href |-> FALSE, href |-> <<"", "">>] }

\* get_language_switch_url returning the href as it stands in the document.
get_language_switch_url_NoJoin(soup, current_url) ==
    IF soup.anchor /\ soup.has_href THEN soup.href ELSE None

\* get_language_switch_url(soup, current_url)
get_language_switch_url(soup, current_url) ==
    IF soup.anchor /\ soup.has_href THEN urljoin(current_url, soup.href) ELSE None

\* find_language_pair(url), given the outcome of its session.get: the pair, or
\* None when there is no link or the fetch or the parse raised.
find_language_pair(url, fetched, soup) ==
    IF ~fetched THEN None
    ELSE LET welsh_url == get_language_switch_url(soup, url)
         IN  IF welsh_url # None THEN <<url, welsh_url>> ELSE None

Running1 ==
    Cardinality({i \in 1..Len(tasks1) : tasks1[i].st \in {"running", "fetched"}})
Running2 ==
    Cardinality({u \in 1..Len(units) :
                    units[u].pc \in {"sleep_en", "get_en", "sleep_cy", "get_cy",
                                    "filter"}})

\* The end of sitemap enumeration and the creation of the Phase 1 executor.
MainStartPhase1 ==
    /\ pcMain = "enumerate"
    /\ smIdx > Len(sitemap_urls)
    /\ pcMain' = IF all_page_urls = <<>> THEN "collect1" ELSE "submit1"
    /\ UNCHANGED <<envVars, fileVars, mainError, enumVars, phase1Vars, phase2Vars,
                   qcVars>>

\* executor.submit(find_language_pair, url), for the next url of all_page_urls
MainSubmit1 ==
    /\ pcMain = "submit1"
    /\ LET k == Len(tasks1) + 1
       IN  /\ tasks1' = Append(tasks1, [url |-> all_page_urls[k], st |-> "pending",
                                        doc |-> <<>>, result |-> None,
                                        collected |-> FALSE])
           /\ pcMain' = IF k = Len(all_page_urls) THEN "collect1" ELSE "submit1"
    /\ UNCHANGED <<envVars, fileVars, mainError, enumVars, url_pairs, phase2Vars,
                   qcVars>>

\* A worker thread of the pool takes a pending Phase 1 task.
Worker1Start(i) ==
    /\ tasks1[i].st = "pending"
    /\ Running1 < MAX_WORKERS
    /\ tasks1' = [tasks1 EXCEPT ![i].st = "running"]
    /\ UNCHANGED <<envVars, fileVars, pcMain, mainError, enumVars, url_pairs,
                   phase2Vars, qcVars>>

\* What the try block of find_language_pair has at hand after lines 62-63:
\* the parsed document, or the exception that session.get or the parser raised.
Responses(url) ==
    { [fetched |-> TRUE, soup |-> soup] : soup \in Soups(url) }
    \cup { [fetched |-> FALSE,
            soup |-> [anchor |-> FALSE, has_href |-> FALSE, href |-> <<"", "">>]] }

\* The task's session.get and BeautifulSoup return or raise.
Worker1Fetch(i) ==
    /\ tasks1[i].st = "running"
    /\ \E response \in Responses(tasks1[i].url) :
         tasks1' = [tasks1 EXCEPT ![i].st = "fetched", ![i].doc = <<response>>]
    /\ UNCHANGED <<envVars, fileVars, pcMain, mainError, enumVars, url_pairs,
                   phase2Vars, qcVars>>

\* find_language_pair returns, from line 67 or from line 70: the future holds
\* its result, and the locals of the call are gone.
Worker1Return(i) ==
    /\ tasks1[i].st = "fetched"
    /\ LET response == tasks1[i].doc[1]
       IN  tasks1' = [tasks1 EXCEPT
                        ![i].st = "done",
                        ![i].doc = <<>>,
                        ![i].result = find_language_pair(tasks1[i].url,
                                          response.fetched, response.soup)]
    /\ UNCHANGED <<envVars, fileVars, pcMain, mainError, enumVars, url_pairs,
                   phase2Vars, qcVars>>

\* One iteration of the as_completed loop of Phase 1.
MainCollect1(i) ==
    /\ pcMain = "collect1"
    /\ tasks1[i].st = "done"
    /\ ~tasks1[i].collected
    /\ tasks1' = [tasks1 EXCEPT ![i].collected = TRUE]
    /\ url_pairs' = IF tasks1[i].result # None
                    THEN Append(url_pairs, tasks1[i].result)
                    ELSE url_pairs
    /\ UNCHANGED <<envVars, fileVars, pcMain, mainError, enumVars, phase2Vars,
                   qcVars>>

\* as_completed left at the first future it yields.
Phase1Drained_FirstCompleted ==
    tasks1 = <<>> \/ \E i \in 1..Len(tasks1) : tasks1[i].collected

\* as_completed is exhausted and the with block of the executor is left:
\* every future of Phase 1 has been yielded.
Phase1Drained == \A i \in 1..Len(tasks1) : tasks1[i].collected

MainEndPhase1 ==
    /\ pcMain = "collect1"
    /\ Phase1Drained
    /\ pcMain' = "open"
    /\ UNCHANGED <<envVars, fileVars, mainError, enumVars, phase1Vars, phase2Vars,
                   qcVars>>


(***************************************************************************)
(* Phase 2 (main, lines 201-220; scrape_page, lines 77-87;                 *)
(* process_url_pair, lines 159-172)                                        *)
(***************************************************************************)

\* The decisions quality_check may reach on two blocks of a page, over what
\* detect does on them, tabulated over the blocks the site may serve.
BlockDecisions ==
    [en \in EnBlocks |->
        [cy \in CyBlocks |->
            { quality_check(en, cy, d1, d2) : d1 \in DetectEn, d2 \in DetectCy }]]

QCResults(en, cy) == BlockDecisions[en][cy]

\* The test of line 166 passing whatever quality_check returned.
Accepted_Always(r) == TRUE

\* The test of line 166: quality_check returned True.
Accepted(r) == r = "True"

\* The loop of process_url_pair over zip(en_articles, cy_articles) from index
\* i on: the outcomes, a list of valid pairs or an exception of quality_check.
RECURSIVE ZipFilter(_, _, _, _, _)
ZipFilter(en_articles, cy_articles, en_url, i, valid) ==
    IF i > Min(Len(en_articles), Len(cy_articles))
    THEN { [raised |-> FALSE, valid_pairs |-> valid] }
    ELSE UNION {
           IF r = "ZeroDivisionError"
           THEN { [raised |-> TRUE, valid_pairs |-> <<>>] }
           ELSE IF Accepted(r)
           THEN ZipFilter(en_articles, cy_articles, en_url, i + 1,
                          Append(valid, <<en_articles[i], cy_articles[i], en_url>>))
           ELSE ZipFilter(en_articles, cy_articles, en_url, i + 1, valid)
           : r \in QCResults(en_articles[i], cy_articles[i]) }

\* process_url_pair(en_url, cy_url), given what its two scrape_page calls
\* returned.
process_url_pair(en_url, en_articles, cy_articles) ==
    ZipFilter(en_articles, cy_articles, en_url, 1, <<>>)

\* The file opened in append mode.
OpenedContent_Append(old) == old

\* The content of the file just opened with mode 'w', whatever it held.
OpenedContent(old) == <<>>

\* json.dump without the f.write that follows it.
AfterBody_NoNewline == "collect2"

\* Where main goes after json.dump: to f.write of the line break.
AfterBody == "write_newline"

\* os.makedirs and open(..., 'w'): the file is created or truncated; either
\* call may raise OSError.
MainOpen ==
    /\ pcMain = "open"
    /\ \/ /\ fileExists' = TRUE
          /\ file' = OpenedContent(file)
          /\ fileOpen' = TRUE
          /\ openCount' = openCount + 1
          /\ pcMain' = IF url_pairs = <<>> THEN "collect2" ELSE "submit2"
          /\ UNCHANGED mainError
       \/ /\ Abort
          /\ UNCHANGED fileVars
    /\ UNCHANGED <<envVars, enumVars, phase1Vars, phase2Vars, qcVars>>

\* executor.submit(process_url_pair, en_url, cy_url), for the next pair
MainSubmit2 ==
    /\ pcMain = "submit2"
    /\ LET k == Len(units) + 1
       IN  /\ units' = Append(units,
                 [en_url |-> url_pairs[k][1], cy_url |-> url_pairs[k][2],
                  pc |-> "pending", en_articles |-> <<>>, cy_articles |-> <<>>,
                  result |-> <<>>, scrapes |-> <<>>, failed |-> {},
                  collected |-> FALSE])
           /\ pcMain' = IF k = Len(url_pairs) THEN "collect2" ELSE "submit2"
    /\ UNCHANGED <<envVars, fileVars, mainError, enumVars, phase1Vars, observed,
                   writeQ, total_pairs, valid_pairs, qcVars>>

\* A worker thread takes a pending unit and enters scrape_page(en_url).
UnitStart(u) ==
    /\ units[u].pc = "pending"
    /\ Running2 < MAX_WORKERS
    /\ units' = [units EXCEPT ![u].pc = "sleep_en", ![u].scrapes = << <<>> >>]
    /\ UNCHANGED <<envVars, fileVars, pcMain, mainError, enumVars, phase1Vars,
                   observed, writeQ, total_pairs, valid_pairs, qcVars>>

\* The events of the unit's scrape_page calls, with ev added to the call at hand.
Noted(u, ev) ==
    LET s == units[u].scrapes
    IN  [s EXCEPT ![Len(s)] = Append(@, ev)]

\* The except branch of scrape_page returning one empty block.
ExceptReturn_EmptyBlock == <<T_empty>>

\* What the except branch of scrape_page returns (line 87).
ExceptReturn == <<>>

\* scrape_page leaves its try block, by the return of line 84 with the
\* articles (ok) or by the except branch, and returns to process_url_pair:
\* after the English page the unit enters scrape_page(cy_url); after the Welsh
\* page it is about to run its loop.
AfterScrape(u, ok, articles, events) ==
    LET returned == IF ok THEN articles ELSE ExceptReturn
    IN  IF units[u].pc \in {"sleep_en", "get_en"}
        THEN units' = [units EXCEPT
                         ![u].en_articles = returned,
                         ![u].pc = "sleep_cy",
                         ![u].failed = IF ok THEN @ ELSE @ \cup {"en"},
                         ![u].scrapes = Append(events, <<>>)]
        ELSE units' = [units EXCEPT
                         ![u].cy_articles = returned,
                         ![u].pc = "filter",
                         ![u].failed = IF ok THEN @ ELSE @ \cup {"cy"},
                         ![u].scrapes = events]

\* time.sleep(REQUEST_DELAY) in scrape_page.  No line of script.py binds the
\* name: where nothing else has bound it in the module, reading it raises
\* NameError inside the try, and scrape_page returns [] without any fetch.
UnitSleep(u) ==
    /\ units[u].pc \in {"sleep_en", "sleep_cy"}
    /\ IF REQUEST_DELAY = "bound"
       THEN units' = [units EXCEPT
                        ![u].pc = IF units[u].pc = "sleep_en" THEN "get_en" ELSE "get_cy",
                        ![u].scrapes = Noted(u, "sleep")]
       ELSE AfterScrape(u, FALSE, <<>>, units[u].scrapes)
    /\ UNCHANGED <<envVars, fileVars, pcMain, mainError, enumVars, phase1Vars,
                   observed, writeQ, total_pairs, valid_pairs, qcVars>>

\* session.get(url) and the parsing in scrape_page: the articles of the page,
\* or [] when either raises.
UnitGet(u) ==
    /\ units[u].pc \in {"get_en", "get_cy"}
    /\ \E fetched \in BOOLEAN,
          articles \in ArticleLists(IF units[u].pc = "get_en" THEN EnBlocks ELSE CyBlocks) :
         AfterScrape(u, fetched, articles, Noted(u, "get"))
    /\ UNCHANGED <<envVars, fileVars, pcMain, mainError, enumVars, phase1Vars,
                   observed, writeQ, total_pairs, valid_pairs, qcVars>>

\* The loop of process_url_pair (lines 164-172): the unit returns its valid
\* pairs or raises what quality_check raised; the future holds the outcome,
\* and the locals of the call are gone.
UnitFilter(u) ==
    /\ units[u].pc = "filter"
    /\ \E out \in process_url_pair(units[u].en_url, units[u].en_articles,
                                    units[u].cy_articles) :
         units' = [units EXCEPT
                     ![u].pc = IF out.raised THEN "raised" ELSE "returned",
                     ![u].result = out.valid_pairs,
                     ![u].en_articles = <<>>,
                     ![u].cy_articles = <<>>]
    /\ UNCHANGED <<envVars, fileVars, pcMain, mainError, enumVars, phase1Vars,
                   observed, writeQ, total_pairs, valid_pairs, qcVars>>

Finished(u) == units[u].pc \in {"returned", "raised"}

\* One iteration of the as_completed loop of Phase 2, up to the loop over the
\* results: future.result() returns the unit's list or raises its exception.
MainCollect2(u) ==
    /\ pcMain = "collect2"
    /\ Finished(u)
    /\ ~units[u].collected
    /\ units' = [units EXCEPT ![u].collected = TRUE]
    /\ observed' = Append(observed, u)
    /\ IF units[u].pc = "raised"
       THEN /\ pcMain' = "unwind"
            /\ UNCHANGED <<writeQ, total_pairs>>
       ELSE /\ total_pairs' = total_pairs + Len(units[u].result)
            /\ writeQ' = units[u].result
            /\ pcMain' = IF units[u].result = <<>> THEN "collect2" ELSE "write_body"
    /\ UNCHANGED <<envVars, fileVars, mainError, enumVars, phase1Vars, valid_pairs,
                   qcVars>>

\* The chunk json.dump writes for one result.
Record(t) == [kind |-> "record", en |-> t[1], cy |-> t[2], url |-> t[3],
              run |-> "this"]

\* What a json.dump that raised on the way has left in the file: the first
\* chunks of the record.
Fragment(t) == [kind |-> "fragment", en |-> t[1], cy |-> t[2], url |-> t[3],
                run |-> "this"]

\* json.dump({"en": en, "cy": cy, "url": url}, f, ensure_ascii=False).  It
\* writes the record in several f.write calls; one of them may raise OSError,
\* before any chunk or after some.
MainWriteBody ==
    /\ pcMain = "write_body"
    /\ \/ /\ file' = Append(file, Record(Head(writeQ)))
          /\ pcMain' = AfterBody
       \/ /\ file' \in {file, Append(file, Fragment(Head(writeQ)))}
          /\ pcMain' = "unwind"
    /\ UNCHANGED <<envVars, fileExists, fileOpen, openCount, mainError, enumVars,
                   phase1Vars, phase2Vars, qcVars>>

\* f.write('\n'); valid_pairs += 1; and the next result of the list.  The
\* write may raise OSError.
MainWriteNewline ==
    /\ pcMain = "write_newline"
    /\ \/ /\ file' = Append(file, Newline)
          /\ valid_pairs' = valid_pairs + 1
          /\ writeQ' = Tail(writeQ)
          /\ pcMain' = IF Tail(writeQ) = <<>> THEN "collect2" ELSE "write_body"
       \/ /\ pcMain' = "unwind"
          /\ UNCHANGED <<file, valid_pairs, writeQ>>
    /\ UNCHANGED <<envVars, fileExists, fileOpen, openCount, mainError, enumVars,
                   phase1Vars, units, observed, total_pairs, qcVars>>

\* as_completed is exhausted: both with blocks are left and main returns.
MainEndPhase2 ==
    /\ pcMain = "collect2"
    /\ \A u \in 1..Len(units) : units[u].collected
    /\ fileOpen' = FALSE
    /\ pcMain' = "done"
    /\ UNCHANGED <<envVars, fileExists, file, openCount, mainError, enumVars,
                   phase1Vars, phase2Vars, qcVars>>

\* The executor's exit waiting until main has consumed every future.
UnitsJoined_Collected == \A u \in 1..Len(units) : units[u].collected

\* The executor's __exit__, shutdown(wait=True), returns: every submitted unit
\* has run to its end.
UnitsJoined == \A u \in 1..Len(units) : Finished(u)

\* future.result() or a write raised: the executor's with block waits for
\* every unit (shutdown(wait=True)), the file is closed, and the except branch
\* is taken.
MainUnwind ==
    /\ pcMain = "unwind"
    /\ UnitsJoined
    /\ fileOpen' = FALSE
    /\ Abort
    /\ UNCHANGED <<envVars, fileExists, file, openCount, enumVars, phase1Vars,
                   phase2Vars, qcVars>>

(***************************************************************************)
(* The specification of a run of main                                      *)
(***************************************************************************)
QCIdle ==
    /\ qcEn = <<>>
    /\ qcCy = <<>>
    /\ qcDetEn = "-"
    /\ qcDetCy = "-"
    /\ qcResult = "idle"

MainAtStart ==
    /\ fileOpen = FALSE
    /\ openCount = 0
    /\ pcMain = "start"
    /\ mainError = FALSE
    /\ sitemap_urls = <<>>
    /\ smIdx = 1
    /\ cache = {}
    /\ failedSitemap = <<>>
    /\ all_page_urls = <<>>
    /\ tasks1 = <<>>
    /\ url_pairs = <<>>
    /\ units = <<>>
    /\ observed = <<>>
    /\ writeQ = <<>>
    /\ total_pairs = 0
    /\ valid_pairs = 0

Init ==
    /\ web \in Webs
    /\ REQUEST_DELAY \in {"unbound", "bound"}
    /\ fileExists \in BOOLEAN
    /\ file \in (IF fileExists THEN OldFiles ELSE {<<>>})
    /\ MainAtStart
    /\ QCIdle

Next ==
    \/ MainGetRoot
    \/ MainGetChild
    \/ MainStartPhase1
    \/ MainSubmit1
    \/ \E i \in 1..Len(tasks1) : Worker1Start(i)
    \/ \E i \in 1..Len(tasks1) : Worker1Fetch(i)
    \/ \E i \in 1..Len(tasks1) : Worker1Return(i)
    \/ \E i \in 1..Len(tasks1) : MainCollect1(i)
    \/ MainEndPhase1
    \/ MainOpen
    \/ MainSubmit2
    \/ \E u \in 1..Len(units) : UnitStart(u)
    \/ \E u \in 1..Len(units) : UnitSleep(u)
    \/ \E u \in 1..Len(units) : UnitGet(u)
    \/ \E u \in 1..Len(units) : UnitFilter(u)
    \/ \E u \in 1..Len(units) : MainCollect2(u)
    \/ MainWriteBody
    \/ MainWriteNewline
    \/ MainEndPhase2
    \/ MainUnwind

Spec == Init /\ [][Next]_vars

\* Fair scheduling: the main thread, and a worker thread of a pool, that has a
\* step to take takes it eventually; a fetch, a delay or a write that has
\* been issued returns or raises.
Fairness ==
    /\ WF_vars(MainGetRoot)
    /\ WF_vars(MainGetChild)
    /\ WF_vars(MainStartPhase1)
    /\ WF_vars(MainSubmit1)
    /\ WF_vars(\E i \in 1..Len(tasks1) : Worker1Start(i))
    /\ WF_vars(\E i \in 1..Len(tasks1) : Worker1Fetch(i))
    /\ WF_vars(\E i \in 1..Len(tasks1) : Worker1Return(i))
    /\ WF_vars(\E i \in 1..Len(tasks1) : MainCollect1(i))
    /\ WF_vars(MainEndPhase1)
    /\ WF_vars(MainOpen)
    /\ WF_vars(MainSubmit2)
    /\ WF_vars(\E u \in 1..Len(units) : UnitStart(u))
    /\ WF_vars(\E u \in 1..Len(units) : UnitSleep(u))
    /\ WF_vars(\E u \in 1..Len(units) : UnitGet(u))
    /\ WF_vars(\E u \in 1..Len(units) : UnitFilter(u))
    /\ WF_vars(\E u \in 1..Len(units) : MainCollect2(u))
    /\ WF_vars(MainWriteBody)
    /\ WF_vars(MainWriteNewline)
    /\ WF_vars(MainEndPhase2)
    /\ WF_vars(MainUnwind)

SpecFair == Spec /\ Fairness

(***************************************************************************)
(* The specification of single calls of quality_check                      *)
(***************************************************************************)
InitQC ==
    /\ web \in {CHOOSE w \in Webs : TRUE}
    /\ REQUEST_DELAY = "unbound"
    /\ fileExists = FALSE
    /\ file = <<>>
    /\ MainAtStart
    /\ qcEn \in EnTexts
    /\ qcCy \in CyTexts
    /\ qcDetEn = "-"
    /\ qcDetCy = "-"
    /\ qcResult = "idle"

\* One call quality_check(qcEn, qcCy), with what detect does on each text.
QualityCheckCall ==
    /\ qcResult = "idle"
    /\ qcDetEn' \in DetectEn
    /\ qcDetCy' \in DetectCy
    /\ qcResult' = quality_check(qcEn, qcCy, qcDetEn', qcDetCy')
    /\ UNCHANGED <<envVars, fileVars, pcMain, mainError, enumVars, phase1Vars,
                   phase2Vars, qcEn, qcCy>>

NextQC == QualityCheckCall

SpecQC == InitQC /\ [][NextQC]_vars


(***************************************************************************)
(*                         PART III : the claims                           *)
(***************************************************************************)

Units == 1..Len(units)
Tasks1 == 1..Len(tasks1)

\* The result t of a unit stands in the file as a complete line.
Written(t) ==
    \E k \in 1..(Len(file) - 1) : file[k] = Record(t) /\ file[k + 1] = Newline

\* C1: when main has returned, for every unit that raised, every other unit
\* has been processed and every pair it accepted is a line of the output file.
C1_SiblingsOfFailedUnitWritten ==
    pcMain = "done" =>
        \A u \in Units : units[u].pc = "raised" =>
            \A v \in Units \ {u} :
                /\ Finished(v)
                /\ \A k \in 1..Len(units[v].result) : Written(units[v].result[k])

\* The triples of the blocks at the indices of acc, in increasing order.
RECURSIVE TriplesAt(_, _, _, _, _)
TriplesAt(E, W, en_url, acc, i) ==
    IF i > Min(Len(E), Len(W)) THEN <<>>
    ELSE (IF i \in acc THEN << <<E[i], W[i], en_url>> >> ELSE <<>>)
         \o TriplesAt(E, W, en_url, acc, i + 1)

\* Unit u leaves the loop of process_url_pair in this step.
LeavesFilter(u) == units[u].pc = "filter" /\ units'[u].pc # "filter"

\* C2: a unit whose two scrape_page calls fetched block sequences E and W
\* returns exactly the triples (E[i], W[i], en_url) of the indices up to
\* min(len(E), len(W)) that quality_check accepts, in increasing order.
C2_ReturnsAcceptedZippedPairs ==
    [][\A u \in Units :
        (LeavesFilter(u)
         /\ units[u].scrapes = << <<"sleep", "get">>, <<"sleep", "get">> >>) =>
            LET E == units[u].en_articles
                W == units[u].cy_articles
                n == Min(Len(E), Len(W))
            IN  /\ units'[u].pc = "returned"
                /\ \E acc \in SUBSET (1..n) :
                     /\ \A i \in 1..n :
                          IF i \in acc THEN "True" \in QCResults(E[i], W[i])
                                       ELSE "False" \in QCResults(E[i], W[i])
                     /\ units'[u].result = TriplesAt(E, W, units[u].en_url, acc, 1)
      ]_vars

\* C3: every call of scrape_page applies the delay and then issues the fetch:
\* a call that has returned did both, in this order, and a call under way
\* has not fetched before the delay.
C3_DelayThenFetchInEveryScrape ==
    \A u \in Units : \A k \in 1..Len(units[u].scrapes) :
        LET ev == units[u].scrapes[k]
            returned == k < Len(units[u].scrapes) \/ Finished(u)
        IN  /\ ev \in { <<>>, <<"sleep">>, <<"sleep", "get">> }
            /\ returned => ev = <<"sleep", "get">>

\* A scrape fetch has been issued.
ScrapeFetchIssued ==
    \E u \in Units : \E k \in 1..Len(units[u].scrapes) :
        "get" \in Range(units[u].scrapes[k])

\* C4: no Phase 2 unit is submitted and no scrape fetch is issued until every
\* Resolver task of Phase 1 has been submitted and has completed.
C4_PhasesNeverOverlap ==
    (units # <<>> \/ ScrapeFetchIssued) =>
        /\ smIdx > Len(sitemap_urls)
        /\ Len(tasks1) = Len(all_page_urls)
        /\ \A i \in Tasks1 : tasks1[i].st = "done"

\* C4, witness: a unit has issued a fetch after a Phase 1 of two tasks, one of
\* which ended without a pair.
C4_Witness ==
    /\ ScrapeFetchIssued
    /\ Len(tasks1) = 2
    /\ \E i \in Tasks1 : tasks1[i].result = None


(***************************************************************************)
(* The ladder of rules of the Quality Filter, as the specification words   *)
(* it, on the tokens and the characters of the two texts.                  *)
(***************************************************************************)

\* The number of tokens of a text: the places where a token begins.
TokenCount(text) ==
    Cardinality({ i \in 1..Len(text) :
                    /\ text[i] \notin Whitespace
                    /\ (i = 1 \/ text[i - 1] \in Whitespace) })

\* The tokens of a text, lower-cased one by one.
LowerTokens(text) == { lower(w) : w \in Range(split(text)) }

\* The capitalised tokens longer than one character.
ProperNouns(text) ==
    { w \in Range(split(text)) : w[1] \in UpperChars /\ Len(w) >= 2 }

\* The number of runs of cls in a text: the places where a run ends.
RunCount(text, cls) ==
    Cardinality({ i \in 1..Len(text) :
                    /\ text[i] \in cls
                    /\ (i = Len(text) \/ text[i + 1] \notin cls) })

\* The ordered rules: whether each fires, and the decision it returns.
Ladder(en, cy, en_detected, cy_detected) ==
    LET len_en == TokenCount(en)
        len_cy == TokenCount(cy)
        lo == Min(len_en, len_cy)
        hi == Max(len_en, len_cy)
    IN  << [fires |-> len_en < 10 /\ len_cy < 10 /\ 10 * lo > 5 * hi,
            decision |-> "True"],
           [fires |-> 10 * lo < 2 * hi,
            decision |-> "False"],
           [fires |-> \/ LowerTokens(en) \cap common_en_words = {}
                      \/ LowerTokens(cy) \cap common_cy_words = {},
            decision |-> "False"],
           [fires |-> /\ en_detected # LangDetectException
                      /\ cy_detected # LangDetectException
                      /\ en_detected # "en"
                      /\ cy_detected # "cy",
            decision |-> "False"],
           [fires |-> \/ \E a \in ProperNouns(en), b \in ProperNouns(cy) :
                            lower(a) = lower(b)
                      \/ \E r \in Range(findall(en, Digits)) :
                            r \in Range(findall(cy, Digits)),
            decision |-> "True"],
           [fires |-> Abs(RunCount(en, Terminators) - RunCount(cy, Terminators)) <= 1,
            decision |-> "True"],
           [fires |-> paragraph_count(en) = paragraph_count(cy),
            decision |-> "True"],
           [fires |-> TRUE,
            decision |-> "False"] >>

\* The first rule of the ladder that fires.
FirstRule(en, cy, en_detected, cy_detected) ==
    LET L == Ladder(en, cy, en_detected, cy_detected)
    IN  CHOOSE k \in 1..Len(L) : L[k].fires /\ \A j \in 1..(k - 1) : ~L[j].fires

QCFirstRule == FirstRule(qcEn, qcCy, qcDetEn, qcDetCy)

\* C5: on two texts of which at least one has a token, quality_check returns
\* the decision of the first rule of the ladder that fires.
C5_DecisionOfFirstFiringRule ==
    (qcResult # "idle" /\ (TokenCount(qcEn) > 0 \/ TokenCount(qcCy) > 0)) =>
        qcResult = Ladder(qcEn, qcCy, qcDetEn, qcDetCy)[QCFirstRule].decision

\* C5, witness: a call that no rule before the last one decides.
C5_Witness ==
    /\ qcResult = "False"
    /\ QCFirstRule = 8

\* The failed fetch was of a child sitemap.
ChildSitemapFailed ==
    /\ failedSitemap # <<>>
    /\ failedSitemap[1] # root_sitemap
    /\ failedSitemap[1] \in SitemapURLs

\* C6: when the fetch of one child sitemap failed, every page URL of every
\* other child sitemap has been submitted to Phase 1 when main returns.
C6_SiblingSitemapsEnumerated ==
    (pcMain = "done" /\ ChildSitemapFailed) =>
        \A c \in (Range(sitemap_urls) \cap SitemapURLs) \ {failedSitemap[1]} :
            \A p \in Range(web[c]) : \E i \in Tasks1 : tasks1[i].url = p

\* The page URLs of the leaf sitemaps reachable from a URL, to a depth.
RECURSIVE LeafURLs(_, _)
LeafURLs(url, depth) ==
    IF url \in PageURLs THEN {url}
    ELSE IF depth = 0 THEN {}
    ELSE UNION { LeafURLs(web[url][k], depth - 1) : k \in 1..Len(web[url]) }

\* C7: when no sitemap fetch failed, the URLs handed to Phase 1 are exactly
\* the page URLs of the leaf sitemaps reachable from the root, at any depth.
C7_LeafURLsOfAnyDepthHandedOver ==
    (pcMain \notin {"start", "enumerate", "submit1"} /\ failedSitemap = <<>>) =>
        { tasks1[i].url : i \in Tasks1 } = LeafURLs(root_sitemap, Cardinality(SitemapURLs))

\* main has left its writing by an exception.
WritingAbandoned == pcMain = "unwind" \/ (pcMain = "done" /\ mainError)

\* C8: the chunks of the output file alternate: every record is followed by
\* its line break before anything else is written; a record without its line
\* break, or the fragment of a record, is the last chunk, while main is about
\* to write the line break or after a write has raised.
C8_RecordsWrittenOneAtATime ==
    \A k \in 1..Len(file) :
        /\ file[k].kind = "record" =>
             IF k = Len(file) THEN pcMain = "write_newline" \/ WritingAbandoned
                              ELSE file[k + 1] = Newline
        /\ file[k].kind = "newline" => (k > 1 /\ file[k - 1].kind = "record")
        /\ file[k].kind = "fragment" => (k = Len(file) /\ WritingAbandoned)

\* C8, witness: main is between a record and its line break, after a complete
\* line, while another unit is in the middle of its scraping.
C8_Witness ==
    /\ pcMain = "write_newline"
    /\ Len(file) >= 3
    /\ \E u \in Units : units[u].pc \in {"sleep_en", "get_en", "sleep_cy", "get_cy"}

NoEarlierRecord == \A k \in 1..Len(file) : file[k] # OldRecord

\* C9 as claimed: once main has started, the file has been opened, exists and
\* holds no record of an earlier run.
C9_TruncatedBeforeEnumeration ==
    pcMain # "start" => (openCount = 1 /\ fileExists /\ NoEarlierRecord)

\* C9 as amended: the file is opened at most once, and only when enumeration and
\* Phase 1 are complete; once opened it exists and holds no record of an earlier
\* run; until then main is not past the opening and the file holds what the
\* earlier run left, and nothing of this run.
C9_TruncatedWhenPhase2Begins ==
    /\ openCount <= 1
    /\ openCount = 1 =>
         /\ fileExists
         /\ NoEarlierRecord
         /\ smIdx > Len(sitemap_urls)
         /\ Len(tasks1) = Len(all_page_urls)
         /\ \A i \in Tasks1 : tasks1[i].collected
    /\ openCount = 0 =>
         /\ pcMain \in {"start", "enumerate", "submit1", "collect1", "open", "done"}
         /\ ~fileOpen
         /\ file \in (IF fileExists THEN OldFiles ELSE {<<>>})

\* C9, witness: a run that ended during enumeration, the record of the earlier
\* run still in the file.
C9_Witness ==
    /\ pcMain = "done"
    /\ failedSitemap # <<>>
    /\ openCount = 0
    /\ file = <<OldRecord, Newline>>

\* C10: no two Phase 2 units process the same LanguagePair.
C10_EachPairInOneUnit ==
    \A u \in Units : \A v \in Units :
        u # v => <<units[u].en_url, units[u].cy_url>> # <<units[v].en_url, units[v].cy_url>>

(***************************************************************************)
(* Phase 1                                                                 *)
(***************************************************************************)

\* The pair the specification gives for a URL and what its fetch brought:
\* (url, urljoin(url, href)) when the document was fetched and holds the
\* language-switch anchor with its href, and nothing otherwise.
ResolvedPair(url, response) ==
    IF response.fetched /\ response.soup.anchor /\ response.soup.has_href
    THEN <<url, urljoin(url, response.soup.href)>>
    ELSE None

\* Sitemap enumeration and Phase 1 are over, without a sitemap failure.
Phase1Over ==
    /\ pcMain \notin {"start", "enumerate", "submit1", "collect1"}
    /\ failedSitemap = <<>>

\* How often a pair stands in url_pairs, and how many collected tasks gave it.
TimesCollected(pair) == Cardinality({ k \in 1..Len(url_pairs) : url_pairs[k] = pair })
TimesResolved(pair) ==
    Cardinality({ i \in Tasks1 : tasks1[i].collected /\ tasks1[i].result = pair })

C11_PairsAreCollectedResults ==
    /\ None \notin Range(url_pairs)
    /\ \A pair \in Range(url_pairs) \cup { tasks1[i].result : i \in Tasks1 } :
         pair # None => TimesCollected(pair) = TimesResolved(pair)
    /\ Phase1Over =>
         /\ Len(tasks1) = Len(all_page_urls)
         /\ \A i \in Tasks1 : tasks1[i].collected

C11_TaskReturnsResolvedPair ==
    \A i \in Tasks1 :
        (tasks1[i].st = "fetched" /\ tasks1'[i].st = "done") =>
            tasks1'[i].result = ResolvedPair(tasks1[i].url, tasks1[i].doc[1])

\* C11: a Phase 1 task returns (url, urljoin(url, href)) when its document was
\* fetched and holds the language-switch anchor, and None when the fetch or
\* the parse failed or there is no such anchor; the phase completes whatever
\* the tasks did, and url_pairs holds exactly the pairs of the collected
\* tasks, each as often as tasks returned it, in whatever order they completed.
C11_FailedTasksContributeNoPair ==
    /\ []C11_PairsAreCollectedResults
    /\ [][C11_TaskReturnsResolvedPair]_vars

\* C11, witness: Phase 1 of two tasks is over; the first task gave no pair,
\* and url_pairs holds the pair of the second task alone.
C11_Witness ==
    /\ pcMain = "open"
    /\ Len(tasks1) = 2
    /\ tasks1[1].result = None
    /\ url_pairs = << tasks1[2].result >>

(***************************************************************************)
(* Phase 2 and the output file                                             *)
(***************************************************************************)

\* The chunks that the records of a list of results make in the file.
RECURSIVE Lines(_)
Lines(results) ==
    IF results = <<>> THEN <<>>
    ELSE <<Record(Head(results)), Newline>> \o Lines(Tail(results))

\* The chunks of the results of the units of a list, unit after unit.
RECURSIVE Output(_)
Output(order) ==
    IF order = <<>> THEN <<>>
    ELSE Lines(units[Head(order)].result) \o Output(Tail(order))

\* The unit leaving its loop returns the triples of the accepted blocks, in
\* increasing order of their index, and none of a rejected pair.
ReturnsAcceptedInOrder(u) ==
    LET E == units[u].en_articles
        W == units[u].cy_articles
        n == Min(Len(E), Len(W))
    IN  \E acc \in SUBSET (1..n) :
            /\ \A i \in 1..n :
                 IF i \in acc THEN "True" \in QCResults(E[i], W[i])
                              ELSE "False" \in QCResults(E[i], W[i])
            /\ units'[u].result = TriplesAt(E, W, units[u].en_url, acc, 1)

\* main has returned from a run that opened the file and met no error.
EndedWithoutError == pcMain = "done" /\ ~mainError /\ openCount = 1

C12_FileIsOutputInObservedOrder ==
    EndedWithoutError =>
        /\ Len(observed) = Len(units)
        /\ \A u \in Units : \E k \in 1..Len(observed) : observed[k] = u
        /\ file = Output(observed)

C12_UnitReturnsAcceptedInOrder ==
    \A u \in Units :
        (LeavesFilter(u) /\ units'[u].pc = "returned") => ReturnsAcceptedInOrder(u)

DecisionOfRules5To8(en, cy) ==
    LET L == Ladder(en, cy, LangDetectException, LangDetectException)
        k == CHOOSE k \in 5..8 : L[k].fires /\ \A j \in 5..(k - 1) : ~L[j].fires
    IN  L[k].decision

\* Rules 1 to 3 are inconclusive on the two texts.
Rules1To3Inconclusive(en, cy) ==
    LET L == Ladder(en, cy, LangDetectException, LangDetectException)
    IN  \A j \in 1..3 : ~L[j].fires

\* C13: when detect raises for either text and rules 1 to 3 are inconclusive,
\* quality_check returns a decision, and it is the decision of rules 5 to 8
\* alone on the two texts.
C13_DetectionFailureSkipsRule4 ==
    (/\ qcResult # "idle"
     /\ qcDetEn = LangDetectException \/ qcDetCy = LangDetectException
     /\ Rules1To3Inconclusive(qcEn, qcCy)) =>
        qcResult = DecisionOfRules5To8(qcEn, qcCy)

\* C13, witness: detect raised on the English text and named another language
\* for the Welsh one, rules 1 to 3 were inconclusive, and the pair is accepted.
C13_Witness ==
    /\ qcResult = "True"
    /\ qcDetEn = LangDetectException
    /\ qcDetCy = "fr"
    /\ Rules1To3Inconclusive(qcEn, qcCy)

(***************************************************************************)
(* scrape_page failures                                                    *)
(***************************************************************************)

\* C14: scrape_page does not raise: a call in which the delay, the fetch or
\* the parsing failed has returned the empty sequence, and the unit then
\* returns (it does not raise) an empty result.
C14_FailedScrapeGivesEmptyResult ==
    \A u \in Units :
        /\ "en" \in units[u].failed => units[u].en_articles = <<>>
        /\ "cy" \in units[u].failed => units[u].cy_articles = <<>>
        /\ units[u].failed # {} => units[u].pc # "raised"
        /\ (units[u].failed # {} /\ Finished(u)) =>
              (units[u].pc = "returned" /\ units[u].result = <<>>)

\* C14, witness: with the delay configured, a unit whose fetch of the Welsh
\* page failed has returned, and main has collected its empty result.
C14_Witness ==
    /\ REQUEST_DELAY = "bound"
    /\ \E u \in Units :
         /\ units[u].failed = {"cy"}
         /\ units[u].pc = "returned"
         /\ units[u].collected

(***************************************************************************)
(* Phase isolation                                                         *)
(***************************************************************************)

\* Phase 1 is over and no task found a pair.
NoPairFound == Phase1Over /\ \A i \in Tasks1 : tasks1[i].result = None

\* C15 as claimed: if Phase 1 ends without any pair, no unit is submitted, no
\* scrape fetch is issued, and when main has returned the file exists and is
\* empty.
C15_NoPairsThenEmptyFile ==
    NoPairFound =>
        /\ units = <<>>
        /\ ~ScrapeFetchIssued
        /\ pcMain = "done" => (fileExists /\ file = <<>>)

\* C15 as amended: if Phase 1 ends without any pair, no unit is submitted and
\* no scrape fetch is issued; when main has returned, the file exists, is
\* closed and is empty if its opening succeeded, and it is as the earlier run
\* left it if os.makedirs or open raised.
C15_NoPairsThenEmptyFileIfOpened ==
    NoPairFound =>
        /\ units = <<>>
        /\ ~ScrapeFetchIssued
        /\ pcMain = "done" =>
             IF mainError
             THEN openCount = 0 /\ file \in (IF fileExists THEN OldFiles ELSE {<<>>})
             ELSE openCount = 1 /\ fileExists /\ ~fileOpen /\ file = <<>>

\* C15, witness: a run of two tasks that found no pair has ended without error.
C15_Witness ==
    /\ NoPairFound
    /\ Len(tasks1) = 2
    /\ pcMain = "done"
    /\ ~mainError
    /\ file = <<>>

(***************************************************************************)
(* The enumerator on an index of N sitemaps of M pages                     *)
(***************************************************************************)
IndexN == Len(web[root_sitemap])
IndexM == IF IndexN = 0 THEN 0 ELSE Len(web[web[root_sitemap][1]])

\* Every page URL that a child sitemap of the root lists, with its place.
ListedPlaces ==
    { <<c, k>> : c \in 1..IndexN, k \in 1..IndexM }

\* The root is an index of IndexN sitemaps that list IndexM page URLs each,
\* and no URL is repeated anywhere.
IsIndexOfDistinctPages ==
    LET children == web[root_sitemap]
    IN  /\ \A c \in 1..IndexN : children[c] \in {S1, S2}
        /\ \A c, d \in 1..IndexN : c # d => children[c] # children[d]
        /\ \A c \in 1..IndexN :
             /\ Len(web[children[c]]) = IndexM
             /\ \A k \in 1..IndexM : web[children[c]][k] \in PageURLs
        /\ \A x, y \in ListedPlaces :
             x # y => web[children[x[1]]][x[2]] # web[children[y[1]]][y[2]]

\* C16: on an index of N sitemaps of M page URLs each, with no URL repeated and
\* no fetch failing, enumeration yields N x M URLs and Phase 1 submits N x M
\* tasks, one for each listed URL.
C16_IndexYieldsNTimesM ==
    (/\ IsIndexOfDistinctPages
     /\ failedSitemap = <<>>
     /\ pcMain \notin {"start", "enumerate", "submit1"}) =>
        /\ Len(all_page_urls) = IndexN * IndexM
        /\ Len(tasks1) = IndexN * IndexM
        /\ \A x \in ListedPlaces :
             Cardinality({ i \in Tasks1 :
                 tasks1[i].url = web[web[root_sitemap][x[1]]][x[2]] }) = 1

\* C16, witness: two sitemaps of two pages each, and four tasks submitted.
C16_Witness ==
    /\ IsIndexOfDistinctPages
    /\ IndexN = 2
    /\ IndexM = 2
    /\ Len(tasks1) = 4
    /\ pcMain = "collect1"

(***************************************************************************)
(* Direction sensitivity of quality_check                                  *)
(***************************************************************************)

\* Both texts have at least ShortTextTokens tokens and their length ratio is
\* at least 0.2.
LongAndBalanced(a, b) ==
    /\ TokenCount(a) >= ShortTextTokens
    /\ TokenCount(b) >= ShortTextTokens
    /\ 5 * Min(TokenCount(a), TokenCount(b)) >= Max(TokenCount(a), TokenCount(b))

\* The decisions of the call with the two texts swapped, over what detect
\* may do on them.
SwappedDecisions ==
    { quality_check(qcCy, qcEn, d1, d2) :
        d1 \in DetectEn \cup DetectCy, d2 \in DetectEn \cup DetectCy }

\* The first argument has no word of the English list, or the second has no
\* word of the Welsh list.
Rule3Rejects(first, second) ==
    \/ LowerTokens(first) \cap common_en_words = {}
    \/ LowerTokens(second) \cap common_cy_words = {}

\* C17: rule 3 tests the first argument against the English word list and the
\* second against the Welsh one: on two long texts of balanced length,
\* quality_check(B, A) is a rejection whenever B has no English common word or
\* A has no Welsh one, whatever quality_check(A, B) returned.
C17_Rule3TestsArgumentsByPosition ==
    (/\ qcResult # "idle"
     /\ LongAndBalanced(qcEn, qcCy)
     /\ Rule3Rejects(qcCy, qcEn)) =>
        SwappedDecisions = {"False"}

\* C17, witness: texts A and B of ten tokens each that quality_check(A, B)
\* accepts, rule 3 passing, and quality_check(B, A) rejects.
C17_Witness ==
    /\ qcResult = "True"
    /\ LongAndBalanced(qcEn, qcCy)
    /\ ~Rule3Rejects(qcEn, qcCy)
    /\ SwappedDecisions = {"False"}

\* C18: every call of quality_check returns a boolean.
C18_AlwaysReturnsABoolean ==
    qcResult \in {"idle", "True", "False"}

(***************************************************************************)
(* Termination and the top-level except                                    *)
(***************************************************************************)

\* C19: under fair scheduling every run terminates: main returns, whatever the
\* tasks and the units did, and the output file is closed from then on.
C19_EveryRunTerminates == <>[](pcMain = "done" /\ ~fileOpen)

\* C19, witness: main has returned from a run of two units, one of which had
\* its fetch fail, with records written and the file closed.
C19_Witness ==
    /\ pcMain = "done"
    /\ ~mainError
    /\ ~fileOpen
    /\ Len(units) = 2
    /\ valid_pairs >= 1
    /\ \E u \in Units : units[u].failed # {}

\* The file without its last chunk, when that is not a line break.
CompleteLines(f) ==
    IF f # <<>> /\ f[Len(f)].kind # "newline" THEN SubSeq(f, 1, Len(f) - 1) ELSE f

C20_ErrorEndsMainWithFileClosed ==
    /\ mainError => pcMain = "done"
    /\ pcMain = "done" => ~fileOpen
    /\ (pcMain = "done" /\ mainError /\ openCount = 1) =>
         /\ Len(CompleteLines(file)) = 2 * valid_pairs
         /\ CompleteLines(file) = SubSeq(Output(observed), 1, 2 * valid_pairs)

C20_NothingWrittenAfterError ==
    (WritingAbandoned \/ pcMain = "done") => file' = file

\* C20: an exception at a step of main takes main to its end, once: main has
\* then returned, the file is closed if it was opened, nothing is written
\* after the error, and the complete records of the file are exactly those
\* written before the error, in the order of writing.
C20_ErrorCaughtOnceFileClosed ==
    /\ []C20_ErrorEndsMainWithFileClosed
    /\ [][C20_NothingWrittenAfterError]_vars

\* C20, witness: main has returned after future.result() raised what a unit
\* raised, with the record of another unit written before.
C20_Witness ==
    /\ pcMain = "done"
    /\ mainError
    /\ ~fileOpen
    /\ Len(file) = 2
    /\ \E u \in Units : units[u].pc = "raised" /\ units[u].collected

=============================================================================
